---- MODULE Spec2Model ----
\* Model of src-tauri/src/main.rs of the voting dapp: the local vote store
\* (votes.json), the floodsub/mdns behaviour handlers, the response-build
\* tasks, the publish-vote UI command and the event loop of initialize().
EXTENDS Integers, Sequences, FiniteSets, TLC

\* ---------------------------------------------------------------------
\* Bounds
\* ---------------------------------------------------------------------
MaxVotes == 3      \* longest store an add may still extend
MaxInitLen == 2    \* longest store drawn for an initial file
MaxInitId == 2     \* largest id of a record of an initial file
MaxChan == 2       \* longest internal response channel
MaxTasks == 1      \* most response-build tasks pending at once
MaxOps == 2        \* most store operations of one run of the store API

\* ---------------------------------------------------------------------
\* Values
\* ---------------------------------------------------------------------
PEER_ID == "self"
RemotePeers == {"p1", "p2"}
Addrs == {"a1", "a2"}
Names == {"Rust", "Elm"}

Vote(id, name, public) == [id |-> id, name |-> name, public |-> public]

Ids(votes) == {votes[i].id : i \in 1..Len(votes)}

UniqueIds(votes) == \A i, j \in 1..Len(votes) : votes[i].id = votes[j].id => i = j

RECURSIVE SeqsUpTo(_, _)
SeqsUpTo(S, n) ==
  IF n = 0 THEN {<<>>}
  ELSE LET shorter == SeqsUpTo(S, n - 1)
       IN shorter \cup {Append(s, x) : s \in {t \in shorter : Len(t) = n - 1}, x \in S}

InitVotes == [id : 0..MaxInitId, name : Names, public : BOOLEAN]

InitStores == {s \in SeqsUpTo(InitVotes, MaxInitLen) : UniqueIds(s)}

\* ---------------------------------------------------------------------
\* The persisted file and its (de)serialisation
\* ---------------------------------------------------------------------
\* serde_json::to_string(&votes): a JSON array with one object per vote,
\* the fields in declaration order.
to_string(votes) == [i \in 1..Len(votes) |-> <<votes[i].id, votes[i].name, votes[i].public>>]

FromSliceNoFlag(json) == [i \in 1..Len(json) |-> Vote(json[i][1], json[i][2], FALSE)]

\* serde_json::from_slice::<Votes>: each object back into a Vote.
from_slice(json) == [i \in 1..Len(json) |-> Vote(json[i][1], json[i][2], json[i][3])]

\* kind: "absent" (no file), "unreadable" (the file exists, fs::read and
\* fs::write fail), "malformed" (content that does not deserialise), "ok".
File(kind, json) == [kind |-> kind, json |-> json]

StoredFile(votes) == File("ok", to_string(votes))

Ok(v) == [ok |-> TRUE, val |-> v]
Err == [ok |-> FALSE, val |-> <<>>]

ReadNeverFails(f) ==
  IF f.kind = "ok" THEN Ok(from_slice(f.json)) ELSE Ok(<<>>)

\* read_local_votes: Ok(votes), or Err when the content does not parse;
\* every fs::read error gives Ok(vec![]).
read_local_votes(f) ==
  CASE f.kind = "ok" -> Ok(from_slice(f.json))
    [] f.kind = "malformed" -> Err
    [] OTHER -> Ok(<<>>)

write_local_votes(f, votes) ==
  IF f.kind = "unreadable" THEN [ok |-> FALSE, file |-> f]
  ELSE [ok |-> TRUE, file |-> File("ok", to_string(votes))]

\* The votes a successful read of f returns.
Stored(f) == read_local_votes(f).val

RECURSIVE MaxOf(_)
MaxOf(S) == LET x == CHOOSE y \in S : TRUE
            IN IF S = {x} THEN x
               ELSE LET m == MaxOf(S \ {x}) IN IF x > m THEN x ELSE m

NewIdLast(votes) == IF votes = <<>> THEN 0 ELSE votes[Len(votes)].id + 1

new_id(votes) == IF votes = <<>> THEN 0 ELSE MaxOf(Ids(votes)) + 1

AddVoteFront(f, name) ==
  LET rd == read_local_votes(f)
      vote == Vote(new_id(rd.val), name, FALSE)
      wr == write_local_votes(f, <<vote>> \o rd.val)
  IN IF ~rd.ok THEN [ok |-> FALSE, vote |-> vote, file |-> f]
     ELSE [ok |-> wr.ok, vote |-> vote, file |-> wr.file]

AddVotePublic(f, name) ==
  LET rd == read_local_votes(f)
      vote == Vote(new_id(rd.val), name, TRUE)
      wr == write_local_votes(f, Append(rd.val, vote))
  IN IF ~rd.ok THEN [ok |-> FALSE, vote |-> vote, file |-> f]
     ELSE [ok |-> wr.ok, vote |-> vote, file |-> wr.file]

\* add_vote: [ok, vote, file]; a failed read or write leaves no new record.
add_vote(f, name) ==
  LET rd == read_local_votes(f)
      vote == Vote(new_id(rd.val), name, FALSE)
      wr == write_local_votes(f, Append(rd.val, vote))
  IN IF ~rd.ok THEN [ok |-> FALSE, vote |-> vote, file |-> f]
     ELSE [ok |-> wr.ok, vote |-> vote, file |-> wr.file]

MarkAll(votes, id) == [i \in 1..Len(votes) |-> [votes[i] EXCEPT !.public = TRUE]]

Mark(votes, id) ==
  [i \in 1..Len(votes) |-> IF votes[i].id = id THEN [votes[i] EXCEPT !.public = TRUE] ELSE votes[i]]

\* publish_vote: [ok, file].
publish_vote(f, id) ==
  LET rd == read_local_votes(f)
      wr == write_local_votes(f, Mark(rd.val, id))
  IN IF ~rd.ok THEN [ok |-> FALSE, file |-> f] ELSE wr

\* ---------------------------------------------------------------------
\* Wire messages
\* ---------------------------------------------------------------------
\* ListMode as serde writes it: "ALL", or {"One": peer}; "missing" stands
\* for a payload with no usable mode field.
ModeALL == [tag |-> "ALL", peer |-> ""]
ModeOne(p) == [tag |-> "One", peer |-> p]
NoMode == [tag |-> "missing", peer |-> ""]

NoField == "<none>"

\* A payload is a JSON object: each of the fields mode, receiver and data
\* is there or not (a payload that is no JSON object has none of them).
Payloads ==
  {p \in [mode : {NoMode, ModeALL, ModeOne(PEER_ID), ModeOne("p1")},
          receiver : {NoField, PEER_ID, "p1"},
          has_data : BOOLEAN,
          data : {<<>>}] :
     (p.receiver = "p1" => p.has_data) /\ (p.receiver = NoField => ~p.has_data)}

Messages == [source : RemotePeers, data : Payloads]

\* serde_json::from_slice::<ListResponse>: all three fields are required,
\* fields the struct does not name are skipped.
IsListResponse(p) == p.mode.tag # "missing" /\ p.receiver # NoField /\ p.has_data

\* serde_json::from_slice::<ListRequest>: only mode is required.
IsListRequest(p) == p.mode.tag # "missing"

ListResponse(receiver, data) == [mode |-> ModeALL, receiver |-> receiver, data |-> data]

ListRequestPayload(mode) == [mode |-> mode, receiver |-> NoField, has_data |-> FALSE, data |-> <<>>]

AllVotes(votes) == votes

\* line 165: votes.into_iter().filter(|r| r.public).collect()
RECURSIVE public_votes(_)
public_votes(votes) ==
  IF votes = <<>> THEN <<>>
  ELSE IF votes[1].public THEN <<votes[1]>> \o public_votes(Tail(votes))
       ELSE public_votes(Tail(votes))

VARIABLES file, ret, returned, nops, job,
          view, mdns, tasks, chan, emitted, published, event, panicked

storeVars == <<ret, returned, nops, job>>

nodeVars == <<view, mdns, tasks, chan, emitted, published, event, panicked>>

vars == <<file, ret, returned, nops, job,
          view, mdns, tasks, chan, emitted, published, event, panicked>>

\* Who a pending response-build answers: a remote requester, or the
\* literal of line 292.
Receivers == RemotePeers \cup {"any"}

NoMsg == [source |-> NoField, data |-> ListRequestPayload(NoMode)]

NoEvent == [kind |-> "none", name |-> "", msg |-> NoMsg, list |-> {}]

NodeIdle ==
  /\ view = {}
  /\ mdns = {}
  /\ tasks = [r \in Receivers |-> 0]
  /\ chan = <<>>
  /\ emitted = <<>>
  /\ published = <<>>
  /\ event = NoEvent
  /\ panicked = FALSE

InitFiles ==
  {File("absent", <<>>), File("unreadable", <<>>), File("malformed", <<>>)}
    \cup {StoredFile(s) : s \in InitStores}

\* ---------------------------------------------------------------------
\* The store API, one call at a time
\* ---------------------------------------------------------------------
Tasks == {1, 2}

Idle == [op |-> "idle", id |-> 0, votes |-> <<>>]

NoVote == Vote(0, "", FALSE)

\* What the last call of the store API was given and what it returned:
\* id and name are its arguments, vote the record add returned, votes the
\* set read_all returned or write_all was given, before the file it found,
\* wrote/written whether the call before was a successful write_all and
\* the set that one was given.
NoRet ==
  [op |-> "none", ok |-> TRUE, id |-> 0, name |-> "", vote |-> NoVote,
   votes |-> <<>>, before |-> File("absent", <<>>), wrote |-> FALSE, written |-> <<>>]

Ret(op, ok, id, before) == [NoRet EXCEPT !.op = op, !.ok = ok, !.id = id, !.before = before]

\* The sets write_all is given.
WriteStores == {s \in InitStores : \A i \in 1..Len(s) : s[i].name = "Rust"}

StoreInit ==
  /\ file \in InitFiles
  /\ ret = NoRet
  /\ returned = <<>>
  /\ nops = 0
  /\ job = [t \in Tasks |-> Idle]
  /\ NodeIdle

\* add(name): add_vote run from its read to its write with no other writer.
StoreAdd ==
  \E name \in Names :
    LET r == add_vote(file, name) IN
    /\ nops < MaxOps
    /\ Len(Stored(file)) < MaxVotes
    /\ file' = r.file
    /\ ret' = [Ret("add", r.ok, r.vote.id, file) EXCEPT !.name = name, !.vote = r.vote]
    /\ returned' = IF r.ok THEN Append(returned, r.vote.id) ELSE returned
    /\ nops' = nops + 1
    /\ UNCHANGED <<job, nodeVars>>

\* mark_public(id): publish_vote run from its read to its write.
StorePublish ==
  \E id \in 0..(MaxInitId + 1) :
    LET r == publish_vote(file, id) IN
    /\ nops < MaxOps
    /\ file' = r.file
    /\ ret' = Ret("publish", r.ok, id, file)
    /\ nops' = nops + 1
    /\ UNCHANGED <<returned, job, nodeVars>>

\* read_all(): read_local_votes.
StoreRead ==
  LET rd == read_local_votes(file) IN
  /\ nops < MaxOps
  /\ ret' = [Ret("read", rd.ok, 0, file) EXCEPT
               !.votes = rd.val,
               !.wrote = (ret.op = "write" /\ ret.ok),
               !.written = IF ret.op = "write" /\ ret.ok THEN ret.votes ELSE <<>>]
  /\ nops' = nops + 1
  /\ UNCHANGED <<file, returned, job, nodeVars>>

\* write_all(s): write_local_votes.
StoreWrite ==
  \E s \in WriteStores :
    LET wr == write_local_votes(file, s) IN
    /\ nops < MaxOps
    /\ file' = wr.file
    /\ ret' = [Ret("write", wr.ok, 0, file) EXCEPT !.votes = s]
    /\ nops' = nops + 1
    /\ UNCHANGED <<returned, job, nodeVars>>

StoreNext == StoreAdd \/ StorePublish \/ StoreRead \/ StoreWrite

StoreSpec == StoreInit /\ [][StoreNext]_vars

\* ---------------------------------------------------------------------
\* The store API called by two tasks at once: the read (line 196, 217) and
\* the write (line 208, 222) of a call are separate steps, nothing locks
\* the file between them.
\* ---------------------------------------------------------------------
RaceInit ==
  /\ file \in {File("absent", <<>>)} \cup {StoredFile(s) : s \in InitStores}
  /\ ret = NoRet
  /\ returned = <<>>
  /\ nops = 0
  /\ job = [t \in Tasks |-> Idle]
  /\ NodeIdle

\* add_vote up to the push of the new vote onto the local copy.
RaceAddRead(t) ==
  \E name \in Names :
    LET rd == read_local_votes(file)
        vote == Vote(new_id(rd.val), name, FALSE) IN
    /\ job[t].op = "idle"
    /\ nops < MaxOps
    /\ Len(rd.val) < MaxVotes
    /\ rd.ok
    /\ job' = [job EXCEPT ![t] = [op |-> "add", id |-> vote.id, votes |-> Append(rd.val, vote)]]
    /\ nops' = nops + 1
    /\ UNCHANGED <<file, ret, returned, nodeVars>>

\* add_vote from write_local_votes to its return.
RaceAddWrite(t) ==
  LET wr == write_local_votes(file, job[t].votes) IN
  /\ job[t].op = "add"
  /\ file' = wr.file
  /\ ret' = Ret("add", wr.ok, job[t].id, file)
  /\ returned' = IF wr.ok THEN Append(returned, job[t].id) ELSE returned
  /\ job' = [job EXCEPT ![t] = Idle]
  /\ UNCHANGED <<nops, nodeVars>>

\* publish_vote up to the for_each over the local copy.
RacePublishRead(t) ==
  \E id \in 0..(MaxInitId + 1) :
    LET rd == read_local_votes(file) IN
    /\ job[t].op = "idle"
    /\ nops < MaxOps
    /\ rd.ok
    /\ job' = [job EXCEPT ![t] = [op |-> "publish", id |-> id, votes |-> Mark(rd.val, id)]]
    /\ nops' = nops + 1
    /\ UNCHANGED <<file, ret, returned, nodeVars>>

\* publish_vote from write_local_votes to its return.
RacePublishWrite(t) ==
  LET wr == write_local_votes(file, job[t].votes) IN
  /\ job[t].op = "publish"
  /\ file' = wr.file
  /\ ret' = Ret("publish", wr.ok, job[t].id, file)
  /\ job' = [job EXCEPT ![t] = Idle]
  /\ UNCHANGED <<returned, nops, nodeVars>>

RaceNext ==
  \E t \in Tasks :
    \/ RaceAddRead(t)
    \/ RaceAddWrite(t)
    \/ RacePublishRead(t)
    \/ RacePublishWrite(t)

RaceSpec == RaceInit /\ [][RaceNext]_vars

\* ---------------------------------------------------------------------
\* The node: UI commands, swarm events, response-build tasks, event loop
\* ---------------------------------------------------------------------
NodeStores ==
  {<<Vote(2, "Elm", TRUE), Vote(0, "Rust", FALSE)>>,
   <<Vote(2, "Elm", TRUE), Vote(0, "Rust", FALSE), Vote(1, "Elm", TRUE)>>}

NodeFiles ==
  {File("absent", <<>>), File("unreadable", <<>>), File("malformed", <<>>)}
    \cup {StoredFile(s) : s \in NodeStores}

\* The discovery records the events may list: two of p1, one of p2.
MdnsRecords == (RemotePeers \X Addrs) \ {<<"p2", "a2">>}

NoResponse == [mode |-> NoMode, receiver |-> NoField, data |-> <<>>]

Event(kind, name, msg, list) == [kind |-> kind, name |-> name, msg |-> msg, list |-> list]

\* window.emit(name, payload)
UiEvent(name, votes, resp) == [name |-> name, votes |-> votes, resp |-> resp]

TaskCount == tasks["any"] + tasks["p1"] + tasks["p2"]

\* respond_with_public_votes up to tokio::spawn: one more pending task.
respond_with_public_votes(pending, receiver) == [pending EXCEPT ![receiver] = @ + 1]

Init ==
  /\ file \in NodeFiles
  /\ ret = NoRet
  /\ returned = <<>>
  /\ nops = 0
  /\ job = [t \in Tasks |-> Idle]
  /\ NodeIdle

\* The publish-vote command: add_vote, spawn of the response-build for
\* "any", emit of get_votes. A failed add_vote panics at the expect.
on_publish_vote ==
  \E name \in Names :
    LET r == add_vote(file, name) IN
    /\ ~panicked
    /\ Len(Stored(file)) < MaxVotes
    /\ TaskCount < MaxTasks
    /\ event' = Event("publish_vote", name, NoMsg, {})
    /\ file' = r.file
    /\ IF r.ok
       THEN /\ tasks' = respond_with_public_votes(tasks, "any")
            /\ emitted' = <<UiEvent("get_votes", read_local_votes(r.file).val, NoResponse)>>
            /\ UNCHANGED panicked
       ELSE /\ panicked' = TRUE
            /\ emitted' = <<>>
            /\ UNCHANGED tasks
    /\ UNCHANGED <<view, mdns, chan, published, storeVars>>

\* The "ping" listener of main: get_languages, then get_votes; the unwrap
\* panics on a store that does not read.
on_ping ==
  LET rd == read_local_votes(file) IN
  /\ ~panicked
  /\ event' = Event("ping", "", NoMsg, {})
  /\ IF rd.ok
     THEN /\ emitted' = <<UiEvent("get_languages", <<>>, NoResponse),
                          UiEvent("get_votes", rd.val, NoResponse)>>
          /\ UNCHANGED panicked
     ELSE /\ emitted' = <<UiEvent("get_languages", <<>>, NoResponse)>>
          /\ panicked' = TRUE
  /\ UNCHANGED <<file, view, mdns, tasks, chan, published, storeVars>>

AnyRequestBuilds(p) == ~IsListResponse(p) /\ IsListRequest(p)

BuildsUndecoded(p) ==
  /\ ~IsListResponse(p)
  /\ (p.mode.tag \in {"ALL", "missing"} \/ (p.mode.tag = "One" /\ p.mode.peer = PEER_ID))

RequestFirstBuilds(p) ==
  /\ IsListRequest(p)
  /\ (p.mode.tag = "ALL" \/ (p.mode.tag = "One" /\ p.mode.peer = PEER_ID))

\* Whether inject_event starts a response-build for this payload.
Builds(p) ==
  /\ ~IsListResponse(p)
  /\ IsListRequest(p)
  /\ (p.mode.tag = "ALL" \/ (p.mode.tag = "One" /\ p.mode.peer = PEER_ID))

\* NetworkBehaviourEventProcess<FloodsubEvent>::inject_event on a Message.
floodsub_inject_event ==
  \E msg \in Messages :
    /\ ~panicked
    /\ Builds(msg.data) => TaskCount < MaxTasks
    /\ event' = Event("message", "", msg, {})
    /\ tasks' = IF Builds(msg.data)
                THEN respond_with_public_votes(tasks, msg.source)
                ELSE tasks
    /\ emitted' = <<>>
    /\ UNCHANGED <<file, view, mdns, chan, published, panicked, storeVars>>

PeersOf(list) == {rec[1] : rec \in list}

NeverHasNode(records, peer) == FALSE

\* Mdns::has_node
has_node(records, peer) == \E rec \in records : rec[1] = peer

\* Floodsub::remove_node_from_partial_view
remove_node_from_partial_view(v, peer) == v \ {peer}

ToggleNode(v, peer) == IF peer \in v THEN v \ {peer} ELSE v \cup {peer}

\* Floodsub::add_node_to_partial_view
add_node_to_partial_view(v, peer) == v \cup {peer}

\* MdnsEvent::Discovered(list): the loop of lines 180-182.
RECURSIVE apply_discovered(_, _)
apply_discovered(v, list) ==
  IF list = {} THEN v
  ELSE LET rec == CHOOSE r \in list : TRUE
       IN apply_discovered(add_node_to_partial_view(v, rec[1]), list \ {rec})

\* MdnsEvent::Expired(list): the loop of lines 185-189, run after Mdns
\* has dropped the expired records.
RECURSIVE apply_expired(_, _, _)
apply_expired(v, records, list) ==
  IF list = {} THEN v
  ELSE LET rec == CHOOSE r \in list : TRUE
           w == IF ~has_node(records, rec[1])
                THEN remove_node_from_partial_view(v, rec[1])
                ELSE v
       IN apply_expired(w, records, list \ {rec})

mdns_discovered ==
  \E list \in {l \in SUBSET MdnsRecords : Cardinality(l) \in 1..2} :
    /\ ~panicked
    /\ mdns' = mdns \cup list
    /\ view' = apply_discovered(view, list)
    /\ event' = Event("discovered", "", NoMsg, list)
    /\ emitted' = <<>>
    /\ UNCHANGED <<file, tasks, chan, published, panicked, storeVars>>

mdns_expired ==
  \E list \in (SUBSET mdns) \ {{}} :
    /\ ~panicked
    /\ mdns' = mdns \ list
    /\ view' = apply_expired(view, mdns', list)
    /\ event' = Event("expired", "", NoMsg, list)
    /\ emitted' = <<>>
    /\ UNCHANGED <<file, tasks, chan, published, panicked, storeVars>>

\* The task spawned by respond_with_public_votes (lines 160-172).
response_build ==
  \E receiver \in Receivers :
    LET rd == read_local_votes(file) IN
    /\ ~panicked
    /\ tasks[receiver] > 0
    /\ rd.ok => Len(chan) < MaxChan
    /\ tasks' = [tasks EXCEPT ![receiver] = @ - 1]
    /\ chan' = IF rd.ok
               THEN Append(chan, ListResponse(receiver, public_votes(rd.val)))
               ELSE chan
    /\ event' = Event("task", receiver, NoMsg, {})
    /\ emitted' = <<>>
    /\ UNCHANGED <<file, view, mdns, published, panicked, storeVars>>

AsPayload(resp) ==
  [mode |-> resp.mode, receiver |-> resp.receiver, has_data |-> TRUE, data |-> resp.data]

LoopTakesLast ==
  /\ ~panicked
  /\ chan # <<>>
  /\ chan' = SubSeq(chan, 1, Len(chan) - 1)
  /\ emitted' = <<UiEvent("new", <<>>, chan[Len(chan)])>>
  /\ event' = Event("recv", "", NoMsg, {})
  /\ UNCHANGED <<file, view, mdns, tasks, published, panicked, storeVars>>

LoopPublishes ==
  /\ ~panicked
  /\ chan # <<>>
  /\ chan' = Tail(chan)
  /\ emitted' = <<UiEvent("new", <<>>, Head(chan))>>
  /\ published' = Append(published, AsPayload(Head(chan)))
  /\ event' = Event("recv", "", NoMsg, {})
  /\ UNCHANGED <<file, view, mdns, tasks, panicked, storeVars>>

\* The response_rcv.recv() arm of the select of initialize and the match
\* below it (lines 346, 354-361).
loop_response ==
  /\ ~panicked
  /\ chan # <<>>
  /\ chan' = Tail(chan)
  /\ emitted' = <<UiEvent("new", <<>>, Head(chan))>>
  /\ event' = Event("recv", "", NoMsg, {})
  /\ UNCHANGED <<file, view, mdns, tasks, published, panicked, storeVars>>

Next ==
  \/ on_publish_vote
  \/ on_ping
  \/ floodsub_inject_event
  \/ mdns_discovered
  \/ mdns_expired
  \/ response_build
  \/ loop_response

Spec == Init /\ [][Next]_vars

\* The node started on one store, the tokio runtime running every spawned
\* task and the select of the loop taking a response that stays ready.
FairInit ==
  /\ Init
  /\ file = StoredFile(<<Vote(2, "Elm", TRUE), Vote(0, "Rust", FALSE)>>)

FairSpec ==
  /\ FairInit
  /\ [][Next]_vars
  /\ WF_vars(response_build)
  /\ WF_vars(loop_response)

\* ---------------------------------------------------------------------
\* Properties of the store
\* ---------------------------------------------------------------------
Increasing(s) == \A i, j \in 1..Len(s) : i < j => s[i] < s[j]

\* C1: over any sequence of add calls on a store whose ids are unique, the
\* ids returned are strictly increasing in call order (hence pairwise
\* distinct) and the persisted store never holds two records of one id.
C1_AddIdsUniqueIncreasing ==
  /\ Increasing(returned)
  /\ UniqueIds(Stored(file))
  /\ (ret.op = "add" /\ ret.ok) =>
       /\ \A x \in Ids(Stored(ret.before)) : ret.id > x
       /\ ret.id \in Ids(Stored(file))

\* Two adds have returned, on a store that was not empty at the start.
C1_Witness ==
  /\ Len(returned) >= 2
  /\ Len(Stored(file)) > Len(returned)
  /\ ret.op = "add"

\* C2: whatever the interleaving of the reads and writes of add and
\* mark_public calls, a record persisted with public = true is never
\* afterwards persisted with public = false.
C2_PublicNeverReverts ==
  [][\A i \in 1..Len(Stored(file)) :
       Stored(file)[i].public =>
         \A j \in 1..Len(Stored(file')) :
           Stored(file')[j].id = Stored(file)[i].id => Stored(file')[j].public]_vars

\* C10: mark_public(id) that ran to its end leaves the length, the order,
\* the ids and the names as they were, sets public on the records of that
\* id and leaves every other record as it was; with no record of that id
\* the persisted set is the one before; on a store that reads and writes
\* the call returns success whether or not a record matched.
C10_MarkPublicFrame ==
  ret.op = "publish" =>
    LET b == Stored(ret.before)
        a == Stored(file) IN
    /\ ret.before.kind \in {"ok", "absent"} => ret.ok
    /\ ~ret.ok => file = ret.before
    /\ Len(a) = Len(b)
    /\ \A i \in 1..Len(b) :
         /\ a[i].id = b[i].id
         /\ a[i].name = b[i].name
         /\ b[i].id # ret.id => a[i] = b[i]
         /\ (b[i].id = ret.id /\ ret.ok) => a[i].public
    /\ ret.id \notin Ids(b) => a = b

\* mark_public matched a record that was not public, next to another
\* record that is not public either.
C10_Witness ==
  /\ ret.op = "publish"
  /\ ret.ok
  /\ \E i, j \in 1..Len(Stored(ret.before)) :
       /\ Stored(ret.before)[i].id = ret.id
       /\ ~Stored(ret.before)[i].public
       /\ Stored(file)[i].public
       /\ Stored(ret.before)[j].id # ret.id
       /\ ~Stored(file)[j].public

\* C11: add(name) that succeeds returns the record of id max(ids) + 1 (0
\* on an empty store), the given name and public = false, and the store
\* persisted afterwards is the one before with that record appended; on
\* a store that reads and writes the call succeeds.
C11_AddAppends ==
  ret.op = "add" =>
    LET b == Stored(ret.before) IN
    /\ ret.before.kind \in {"ok", "absent"} => ret.ok
    /\ ~ret.ok => file = ret.before
    /\ ret.ok =>
         /\ b = <<>> => ret.vote.id = 0
         /\ b # <<>> => (ret.vote.id - 1 \in Ids(b) /\ \A x \in Ids(b) : x < ret.vote.id)
         /\ ret.vote.name = ret.name
         /\ ret.vote.public = FALSE
         /\ Len(Stored(file)) = Len(b) + 1
         /\ \A i \in 1..Len(b) : Stored(file)[i] = b[i]
         /\ Stored(file)[Len(b) + 1] = ret.vote

\* add succeeded on a store of two records whose largest id is not last.
C11_Witness ==
  /\ ret.op = "add"
  /\ ret.ok
  /\ Len(Stored(ret.before)) = 2
  /\ Stored(ret.before)[1].id > Stored(ret.before)[2].id
  /\ Stored(file)[3] = ret.vote

\* C12: read_all returns an empty set without error when the file does
\* not exist and reports an error for every other read failure, a file
\* that exists and cannot be read included.
C12_ReadAllErrors ==
  ret.op = "read" =>
    /\ ret.before.kind = "absent" => (ret.ok /\ ret.votes = <<>>)
    /\ ret.before.kind = "malformed" => ~ret.ok
    /\ ret.before.kind = "unreadable" => ~ret.ok

\* C15: read_all() right after a successful write_all(s) returns s: the
\* same records with the same field values in the same order.
C15_WriteReadRoundTrip ==
  (ret.op = "read" /\ ret.wrote) =>
    /\ ret.ok
    /\ Len(ret.votes) = Len(ret.written)
    /\ \A i \in 1..Len(ret.written) :
         /\ ret.votes[i].id = ret.written[i].id
         /\ ret.votes[i].name = ret.written[i].name
         /\ ret.votes[i].public = ret.written[i].public

\* A set of two records, one of them public, was written and read back.
C15_Witness ==
  /\ ret.op = "read"
  /\ ret.wrote
  /\ Len(ret.written) = 2
  /\ ret.written[1].public
  /\ ~ret.written[2].public
  /\ ret.written[1].id > ret.written[2].id

\* ---------------------------------------------------------------------
\* Properties of the node
\* ---------------------------------------------------------------------
NewEvents == {emitted[i] : i \in {k \in 1..Len(emitted) : emitted[k].name = "new"}}

\* C3: every `new` event emitted to the UI carries a ListResponse whose
\* receiver is this peer's own identifier.
C3_NewOnlyForSelf == \A e \in NewEvents : e.resp.receiver = PEER_ID

SelfResponse(e) ==
  /\ e.kind = "message"
  /\ IsListResponse(e.msg.data)
  /\ e.msg.data.receiver = PEER_ID

OtherResponse(e) ==
  /\ e.kind = "message"
  /\ IsListResponse(e.msg.data)
  /\ e.msg.data.receiver # PEER_ID

\* C4: an inbound payload that decodes as a ListResponse addressed to this
\* peer is eventually forwarded to the UI as a `new` event; one addressed
\* to another peer causes no UI event and no change of state.
C4_SelfResponseForwarded ==
  /\ SelfResponse(event) ~> (\E e \in NewEvents : e.resp.receiver = PEER_ID)
  /\ [][OtherResponse(event') =>
          /\ emitted' = <<>>
          /\ UNCHANGED <<file, view, mdns, tasks, chan, published>>]_vars

\* C5: the publish-vote command adds the vote, publishes a ListRequest of
\* mode ALL on the topic and emits get_votes with the store holding the
\* new record.
C5_PublishVoteBroadcasts ==
  [][(event'.kind = "publish_vote" /\ ~panicked') =>
       /\ Stored(file') = Append(Stored(file), Vote(new_id(Stored(file)), event'.name, FALSE))
       /\ published' = Append(published, ListRequestPayload(ModeALL))
       /\ emitted' = <<UiEvent("get_votes", Stored(file'), NoResponse)>>]_vars

PublicIndexes(s) == {k \in 1..Len(s) : s[k].public}

\* d holds exactly the public records of s, in the order they have in s.
IsPublicSubsequence(d, s) ==
  /\ Len(d) = Cardinality(PublicIndexes(s))
  /\ \A i \in 1..Len(d) :
       \E k \in PublicIndexes(s) :
         /\ d[i] = s[k]
         /\ Cardinality({m \in PublicIndexes(s) : m < k}) = i - 1

Responses ==
  {chan[i] : i \in 1..Len(chan)} \cup {e.resp : e \in NewEvents}

\* C6: the ListResponse a response-build enqueues has as data exactly the
\* records of the store with public = true, in store order, and no
\* response in the channel or on its way to the UI holds a record with
\* public = false.
C6_ResponseIsPublicSubsequence ==
  /\ (event.kind = "task" /\ read_local_votes(file).ok) =>
       /\ chan # <<>>
       /\ chan[Len(chan)].receiver = event.name
       /\ IsPublicSubsequence(chan[Len(chan)].data, Stored(file))
  /\ \A r \in Responses : \A i \in 1..Len(r.data) : r.data[i].public

\* A response-build answered from a store with two public records around
\* one that is not.
C6_Witness ==
  /\ event.kind = "task"
  /\ chan # <<>>
  /\ Len(chan[Len(chan)].data) = 2
  /\ Len(Stored(file)) = 3

HandledAsRequest(e) ==
  /\ e.kind = "message"
  /\ ~IsListResponse(e.msg.data)
  /\ IsListRequest(e.msg.data)

\* C7: handling an inbound ListRequest, mode ALL starts exactly one
\* response-build for the requester; mode One(target) starts one if and
\* only if target is this peer, and otherwise nothing is enqueued and no
\* state changes.
C7_RequestHandling ==
  [][HandledAsRequest(event') =>
       LET p == event'.msg.data
           src == event'.msg.source
           one == [tasks EXCEPT ![src] = @ + 1] IN
       /\ p.mode.tag = "ALL" => tasks' = one
       /\ (p.mode.tag = "One" /\ p.mode.peer = PEER_ID) => tasks' = one
       /\ (p.mode.tag = "One" /\ p.mode.peer # PEER_ID) => tasks' = tasks
       /\ chan' = chan
       /\ emitted' = <<>>
       /\ UNCHANGED <<file, view, mdns, published, panicked>>]_vars

\* A One request naming another peer was handled and started nothing.
C7_Witness ==
  /\ HandledAsRequest(event)
  /\ event.msg.data.mode.tag = "One"
  /\ event.msg.data.mode.peer # PEER_ID
  /\ TaskCount = 0

\* Discovery still holds a record of the peer.
StillLive(records, peer) == {rec \in records : rec[1] = peer} # {}

\* C8: an Expired event removes a peer from the partial view only if
\* Discovery holds no other live record of it; a peer with a record still
\* live stays in the view.
C8_ExpiredKeepsLivePeers ==
  [][event'.kind = "expired" =>
       \A p \in view :
         /\ p \notin view' => (p \in PeersOf(event'.list) /\ ~StillLive(mdns', p))
         /\ StillLive(mdns', p) => p \in view']_vars

\* One of two records of a peer expired and the peer is still in the view.
C8_Witness ==
  /\ event.kind = "expired"
  /\ \E p \in PeersOf(event.list) : StillLive(mdns, p) /\ p \in view

\* C9: after a Discovered event every peer it lists is in the partial
\* view, and applying the same event again leaves the view as it is.
C9_DiscoveredAddsIdempotent ==
  event.kind = "discovered" =>
    /\ PeersOf(event.list) \subseteq view
    /\ apply_discovered(view, event.list) = view

\* A Discovered event listed a peer that another record had already put
\* into the view.
C9_Witness ==
  /\ event.kind = "discovered"
  /\ \E rec \in mdns \ event.list : rec[1] \in PeersOf(event.list)
  /\ PeersOf(event.list) \subseteq view

\* The payload decodes neither as a ListResponse nor as a ListRequest.
Undecodable(e) == e.kind = "message" /\ e.msg.data.mode.tag = "missing"

\* C13: an inbound payload that decodes as neither message is discarded:
\* no response-build starts, nothing is enqueued, no UI event is emitted,
\* the store and the partial view stay as they are.
C13_UndecodableDiscarded ==
  [][Undecodable(event') =>
       /\ tasks' = tasks
       /\ chan' = chan
       /\ emitted' = <<>>
       /\ UNCHANGED <<file, view, mdns, published, panicked>>]_vars

\* A payload with receiver and data but no mode was handled.
C13_Witness ==
  /\ Undecodable(event)
  /\ event.msg.data.receiver = PEER_ID
  /\ event.msg.data.has_data
  /\ TaskCount = 0

C16_ReceiverIsRequester ==
  [][/\ (event'.kind = "publish_vote" /\ ~panicked') =>
          \A r \in Receivers : tasks'[r] > tasks[r] => r = PEER_ID
     /\ HandledAsRequest(event') =>
          \A r \in Receivers : tasks'[r] > tasks[r] => r = event'.msg.source
     /\ (event'.kind = "task" /\ chan' # chan) =>
          /\ chan'[Len(chan')].mode = ModeALL
          /\ chan'[Len(chan')].receiver = event'.name]_vars

DecodesAsResponse(e) ==
  /\ e.kind = "message"
  /\ e.msg.data.mode.tag # "missing"
  /\ e.msg.data.receiver # NoField
  /\ e.msg.data.has_data

\* C17: a payload that decodes as a ListResponse is handled as a response
\* only: it starts no response-build, whatever its mode field says.
C17_ResponseDecodedFirst ==
  [][DecodesAsResponse(event') =>
       /\ tasks' = tasks
       /\ chan' = chan
       /\ emitted' = <<>>]_vars

\* A ListResponse of mode ALL, which also decodes as a ListRequest, was
\* handled and no response-build is pending.
C17_Witness ==
  /\ DecodesAsResponse(event)
  /\ event.msg.data.mode.tag = "ALL"
  /\ TaskCount = 0

\* The responses a build can enqueue in a run of FairSpec.
FairResponses ==
  [mode : {ModeALL}, receiver : Receivers, data : {<<Vote(2, "Elm", TRUE)>>}]

InChan(r) == \E i \in 1..Len(chan) : chan[i] = r

\* C18: with the loop and the tasks scheduled fairly, every response in
\* the channel is eventually emitted as a `new` event; a response leaves
\* the channel only from its head and together with the one `new` event
\* that carries it, so the events come in the order of the enqueues;
\* a swarm event emits nothing.
C18_ResponsesEmittedInOrder ==
  /\ \A r \in FairResponses : InChan(r) ~> (emitted = <<UiEvent("new", <<>>, r)>>)
  /\ [][/\ chan' # chan =>
            \/ /\ chan # <<>>
               /\ chan' = Tail(chan)
               /\ emitted' = <<UiEvent("new", <<>>, Head(chan))>>
            \/ /\ Len(chan') = Len(chan) + 1
               /\ SubSeq(chan', 1, Len(chan)) = chan
               /\ emitted' = <<>>
        /\ NewEvents' # {} =>
            /\ chan # <<>>
            /\ chan' = Tail(chan)
            /\ emitted' = <<UiEvent("new", <<>>, Head(chan))>>
        /\ event'.kind \in {"message", "discovered", "expired"} => emitted' = <<>>]_vars

\* The first of two responses for different receivers has been emitted,
\* the second is still in the channel.
C18_Witness ==
  /\ event.kind = "recv"
  /\ Len(chan) = 1
  /\ \E e \in NewEvents : e.resp.receiver # chan[1].receiver

\* C19: this node publishes no ListResponse on the topic: a response
\* leaves the channel only as a `new` event for the local UI, and nothing
\* published decodes as a ListResponse.
C19_ResponsesStayLocal ==
  [][/\ \A i \in 1..Len(published') :
          ~(published'[i].has_data /\ published'[i].receiver # NoField)
     /\ (chan # <<>> /\ chan' = Tail(chan)) =>
          /\ emitted' = <<UiEvent("new", <<>>, Head(chan))>>
          /\ published' = published]_vars

\* A response built for a remote requester has gone to the local UI and
\* nothing has been published.
C19_Witness ==
  /\ event.kind = "recv"
  /\ \E e \in NewEvents : e.resp.receiver \in RemotePeers
  /\ published = <<>>

AllPrivate(f) == \A i \in 1..Len(Stored(f)) : ~Stored(f)[i].public

\* C20: no command and no event of the node makes a record public: from
\* a store with no public record every step leads to a store with no
\* public record, and a response built from it has empty data.
C20_NothingBecomesPublic ==
  [][AllPrivate(file) =>
       /\ AllPrivate(file')
       /\ (event'.kind = "task" /\ chan' # chan) => chan'[Len(chan')].data = <<>>]_vars

\* After a publish-vote command the store holds a record, none public,
\* and the response built from it is empty.
C20_Witness ==
  /\ event.kind = "task"
  /\ Len(Stored(file)) >= 1
  /\ AllPrivate(file)
  /\ chan # <<>>
  /\ chan[Len(chan)].data = <<>>
  /\ chan[Len(chan)].receiver = "any"

====
